---- MODULE Spec2Model ----
(***************************************************************************)
(* Model of the backtesting engine: Backtester (src/backtester/engine.py)  *)
(* and its subclass MomentumBacktester (src/factor_lib/momentum.py).       *)
(*                                                                         *)
(* A dataset is a sequence of period records; the period key of a record   *)
(* is its position in the sequence (a unique, increasing index, which is   *)
(* also what reset_index(drop=True) produces after a shuffle).  Numeric    *)
(* cell values that may be fractional (the Signal column) are held in      *)
(* units of 1/Unit, so that int() is a real truncation.  Balances and      *)
(* prices are exact integers (floating-point rounding is not modelled).    *)
(***************************************************************************)
EXTENDS Integers, Sequences, FiniteSets, TLC

\* ------------------------------------------------------------ bounds
\* The longest dataset, the most public calls on one object, the largest
\* n_simulations, and the resolution of a raw Signal cell (cells are held in
\* units of 1/Unit).
MaxLen == 2
MaxCalls == 2
MaxSims == 2
Unit == 2

\* ------------------------------------------------------------ constants
\* The missing value (NaN) of a numeric cell, as tested by pd.isna.
NaN == -1000
\* The default initial_balance of both constructors.
DefaultInitialBalance == 10000

VARIABLES
  cls,              \* the class of the simulator object
  data,             \* self.data without its 'Portfolio Value' column
  portfolio_value,  \* self.data['Portfolio Value'] (<<>>: column absent)
  holdout,          \* the later window a caller may hand to forward_test
  initial_balance,  \* self.initial_balance
  balance,          \* self.balance
  position,         \* self.position
  trades,           \* self.trades
  call,             \* the public method running (or the last one run)
  todo,             \* what remains of the running method: a sequence of steps
  i,                \* rows of self.data already consumed by the running execute_trades loop
  returns,          \* monte_carlo_backtest: the local list returns
  n_left,           \* monte_carlo_backtest: iterations of the for loop left
  n_simulations,    \* monte_carlo_backtest: its argument
  shuffled_data,    \* monte_carlo_backtest: the value assigned to shuffled_data
  total_return,     \* the total return last returned by calculate_performance
  post_trade_balance, \* history: the balance right after each entry of trades was executed
  calls,            \* the number of public calls made so far
  data_arg,         \* the data argument of the last __init__, as it was handed in
  has_signal,       \* 'Signal' in self.data.columns
  raised,           \* the exception that ended the constructor ("none": none)
  fn_call,          \* a call of a signal function on its own: the function and its arguments
  fn_result         \* what that call returned

vars == <<cls, data, portfolio_value, holdout, initial_balance, balance, position,
          trades, call, todo, i, returns, n_left, n_simulations, shuffled_data,
          total_return, post_trade_balance, calls, data_arg, has_signal, raised,
          fn_call, fn_result>>

\* ------------------------------------------------------------ values
IsNa(x) == x = NaN

Classes == {"Backtester", "MomentumBacktester"}

\* Close prices.
Prices == {1, 2}

\* Indicator values: undefined at warm-up, or a number.
IndicatorValues == {NaN, 1, 2}

\* Raw Signal cells in units of 1/Unit (with Unit = 2: -2.0, -1.5, ..., 2.0),
\* and undefined.
SignalValues == {NaN} \cup (-4..4)

\* int(x) and astype(int): truncation toward zero.
IntOf(raw) == IF raw >= 0 THEN raw \div Unit ELSE -((-raw) \div Unit)

\* A period record handed to the simulator: either it carries indicators and
\* no signal yet, or it is pre-signaled and carries no indicators.
IndicatorRows ==
  { [Close |-> p, MA_20 |-> s, MA_50 |-> l, Signal |-> 0] :
      p \in Prices, s \in IndicatorValues, l \in IndicatorValues }

SignalRows ==
  { [Close |-> p, MA_20 |-> NaN, MA_50 |-> NaN, Signal |-> g] :
      p \in Prices, g \in SignalValues }

Rows == IndicatorRows \cup SignalRows

\* Pre-signaled rows of an imperfect series: the close price may be undefined.
DefectRows ==
  { [Close |-> p, MA_20 |-> NaN, MA_50 |-> NaN, Signal |-> g] :
      p \in Prices \cup {NaN}, g \in SignalValues }

\* The rows a dataset of class c is made of when it goes through the whole
\* pipeline: Backtester derives its signals from the indicators,
\* MomentumBacktester wants them pre-supplied.
RowsOf(c) == IF c = "MomentumBacktester" THEN SignalRows ELSE IndicatorRows

\* A smaller sample of the same rows, for the Monte Carlo runs: every
\* crossover outcome, and an undefined, a fractional and each in-domain signal.
McRowsOf(c) ==
  IF c = "MomentumBacktester"
  THEN { r \in SignalRows : r.Signal \in {NaN, -Unit, 0, Unit, Unit + 1} }
  ELSE { r \in IndicatorRows :
           <<r.MA_20, r.MA_50>> \in {<<NaN, 1>>, <<1, 1>>, <<1, 2>>, <<2, 1>>} }

SeqsUpTo(S, n) == UNION { [1..k -> S] : k \in 0..n }

Perms(n) == { f \in [1..n -> 1..n] : \A a, b \in 1..n : f[a] = f[b] => a = b }

Permute(s, f) == [k \in 1..Len(s) |-> s[f[k]]]

\* ------------------------------------------------------------ Backtester
\* The crossover signal of one row.
CrossoverSignal(row) ==
  IF ~IsNa(row.MA_20) /\ ~IsNa(row.MA_50) /\ row.MA_20 > row.MA_50 THEN 1
  ELSE IF ~IsNa(row.MA_20) /\ ~IsNa(row.MA_50) /\ row.MA_20 < row.MA_50 THEN -1
  ELSE 0

\* Backtester.generate_signals on a dataset.
BacktesterSignals(d) ==
  [k \in 1..Len(d) |-> [d[k] EXCEPT !.Signal = Unit * CrossoverSignal(d[k])]]

\* MomentumBacktester.generate_signals on a dataset that has a Signal column.
MomentumSignals(d) ==
  [k \in 1..Len(d) |->
     [d[k] EXCEPT !.Signal = Unit * (IF IsNa(@) THEN 0 ELSE IntOf(@))]]

GenerateSignalsOf(c, d) ==
  IF c = "MomentumBacktester" THEN MomentumSignals(d) ELSE BacktesterSignals(d)

\* Floating-point + and -: an undefined operand gives an undefined result.
Plus(a, b) == IF IsNa(a) \/ IsNa(b) THEN NaN ELSE a + b
Minus(a, b) == IF IsNa(a) \/ IsNa(b) THEN NaN ELSE a - b

\* ExecRow with the buy branch pyramiding: the guard on the current position
\* is gone and the position is incremented instead of set.
ExecRow_Pyramiding(st, index, row) ==
  IF IsNa(row.Signal) THEN st
  ELSE
    LET signal == IntOf(row.Signal)
        close_price == row.Close
    IN  IF signal = 1 THEN
          [position |-> st.position + 1,
           balance  |-> Minus(st.balance, close_price),
           trades   |-> Append(st.trades, <<index, "BUY", close_price>>)]
        ELSE IF signal = -1 /\ st.position >= 0 THEN
          IF st.position = 1 THEN
            [position |-> -1,
             balance  |-> Minus(Plus(Plus(st.balance, close_price), close_price), close_price),
             trades   |-> Append(st.trades, <<index, "SELL", close_price>>)]
          ELSE
            [position |-> -1,
             balance  |-> Minus(Plus(st.balance, close_price), close_price),
             trades   |-> st.trades]
        ELSE IF signal = 0 /\ st.position # 0 THEN
          IF st.position = 1 THEN
            [position |-> 0,
             balance  |-> Plus(st.balance, close_price),
             trades   |-> Append(st.trades, <<index, "SELL", close_price>>)]
          ELSE
            [position |-> 0,
             balance  |-> Minus(st.balance, close_price),
             trades   |-> Append(st.trades, <<index, "BUY", close_price>>)]
        ELSE st

\* One iteration of the loop of execute_trades on the simulator state
\* st = [position, balance, trades], for the row with key index.
ExecRow(st, index, row) ==
  IF IsNa(row.Signal) THEN st
  ELSE
    LET signal == IntOf(row.Signal)
        close_price == row.Close
    IN  IF signal = 1 /\ st.position <= 0 THEN
          [position |-> 1,
           balance  |-> Minus(st.balance, close_price),
           trades   |-> Append(st.trades, <<index, "BUY", close_price>>)]
        ELSE IF signal = -1 /\ st.position >= 0 THEN
          IF st.position = 1 THEN
            [position |-> -1,
             balance  |-> Minus(Plus(Plus(st.balance, close_price), close_price), close_price),
             trades   |-> Append(st.trades, <<index, "SELL", close_price>>)]
          ELSE
            [position |-> -1,
             balance  |-> Minus(Plus(st.balance, close_price), close_price),
             trades   |-> st.trades]
        ELSE IF signal = 0 /\ st.position # 0 THEN
          IF st.position = 1 THEN
            [position |-> 0,
             balance  |-> Plus(st.balance, close_price),
             trades   |-> Append(st.trades, <<index, "SELL", close_price>>)]
          ELSE
            [position |-> 0,
             balance  |-> Minus(st.balance, close_price),
             trades   |-> Append(st.trades, <<index, "BUY", close_price>>)]
        ELSE st

\* The balance after calculate_performance has walked the first k ledger entries.
RECURSIVE ReplayBalance(_, _, _)
ReplayBalance(tr, k, bal) ==
  IF k = 0 THEN bal
  ELSE LET b == ReplayBalance(tr, k - 1, bal)
       IN  IF tr[k][2] = "BUY" THEN Minus(b, tr[k][3])
           ELSE IF tr[k][2] = "SELL" THEN Plus(b, tr[k][3])
           ELSE b

\* The 'Portfolio Value' column after calculate_performance has walked the
\* first k ledger entries: data.loc[date:, 'Portfolio Value'] = balance.
RECURSIVE ReplayCurve(_, _, _, _, _)
ReplayCurve(tr, k, bal, ib, n) ==
  IF k = 0 THEN [p \in 1..n |-> ib]
  ELSE LET prev == ReplayCurve(tr, k - 1, bal, ib, n)
           b    == ReplayBalance(tr, k, bal)
       IN  [p \in 1..n |-> IF p >= tr[k][1] THEN b ELSE prev[p]]

\* TotalReturn without the subtraction of the initial balance.
TotalReturn_NoBase(bal, ib) == <<bal, ib>>

\* total_return = (balance - initial_balance) / initial_balance, as the
\* fraction <<numerator, denominator>>.
TotalReturn(bal, ib) == <<bal - ib, ib>>

RatEq(x, y) == x[1] * y[2] = y[1] * x[2]

\* The whole loop of execute_trades over the first k rows of d.
RECURSIVE ExecRows(_, _, _)
ExecRows(st, d, k) ==
  IF k = 0 THEN st ELSE ExecRow(ExecRows(st, d, k - 1), k, d[k])

\* The fields Backtester.__init__ sets.
Fresh(ib) == [position |-> 0, balance |-> ib, trades |-> <<>>]

\* The total return of c(d, ib).run_backtest(): the constructor of class c on
\* dataset d, then one run_backtest.
DirectRun(c, d, ib) ==
  LET d0 == IF c = "MomentumBacktester" THEN MomentumSignals(d) ELSE d
      s0 == IF c = "MomentumBacktester" THEN ExecRows(Fresh(ib), d0, Len(d0)) ELSE Fresh(ib)
      d1 == GenerateSignalsOf(c, d0)
      s1 == ExecRows(s0, d1, Len(d1))
  IN  TotalReturn(ReplayBalance(s1.trades, Len(s1.trades), s1.balance), ib)

\* The steps self.__init__ leaves to run after Backtester.__init__ has reset
\* the fields: none for Backtester, generate_signals and execute_trades for
\* MomentumBacktester.
CtorRest(c) ==
  IF c = "MomentumBacktester" THEN <<"ctor_gen", "ctor_exec">> ELSE <<>>

\* ------------------------------------------------------------ signal functions
\* Window numbers of the MA_ columns a frame may carry (the column MA_<w>).
Windows == {5, 20, 50}

\* Indicator values of a frame.
MAValues == {NaN, 1, 2, 3}

\* The MA_ columns of a frame in column order.
ColumnLists ==
  { c \in SeqsUpTo(Windows, Cardinality(Windows)) :
      \A a, b \in 1..Len(c) : c[a] = c[b] => a = b }

\* The periods of a frame of n MA_ columns: frames with more than two columns
\* are kept shorter.
FrameLen(n) == IF n > 2 THEN MaxLen - 1 ELSE MaxLen + 1

\* list.sort(key=window) left in the order of the columns.
SortedByWindow_ColumnOrder(c) == c

\* list.sort(key=window): stable, ascending.
RECURSIVE SortedByWindow(_)
SortedByWindow(c) ==
  IF c = <<>> THEN <<>>
  ELSE LET w == c[Len(c)]
           s == SortedByWindow(SubSeq(c, 1, Len(c) - 1))
           n == Cardinality({ j \in 1..Len(s) : s[j] <= w })
       IN  SubSeq(s, 1, n) \o <<w>> \o SubSeq(s, n + 1, Len(s))

\* df['MA_<w>']: the position of the column, when the frame has it.
HasColumn(c, w) == \E j \in 1..Len(c) : c[j] = w
ColumnIndex(c, w) == CHOOSE j \in 1..Len(c) : c[j] = w

\* Backtester.generate_signals on a frame: the Signal column it leaves, and
\* the KeyError of a missing column.
CrossoverFrame(frame) ==
  LET c == frame.columns
      ma_columns == SortedByWindow(c)
      short_ma == IF Len(c) >= 2 THEN ma_columns[1] ELSE 20
      long_ma == IF Len(c) >= 2 THEN ma_columns[2] ELSE 50
      zeros == [k \in 1..Len(frame.rows) |-> 0]
  IN  IF ~HasColumn(c, short_ma) \/ ~HasColumn(c, long_ma)
      THEN [returned |-> TRUE, raised |-> "KeyError", signals |-> zeros]
      ELSE [returned |-> TRUE, raised |-> "none",
            signals |->
              [k \in 1..Len(frame.rows) |->
                 CrossoverSignal([MA_20 |-> frame.rows[k][ColumnIndex(c, short_ma)],
                                  MA_50 |-> frame.rows[k][ColumnIndex(c, long_ma)]])]]

\* Momentum ranks: undefined during warm-up, or a rank.
RankValues == {NaN, 1, 2, 3, 4}

\* The threshold argument: <<>> is None, <<t>> is the number t.
Thresholds == {<<>>} \cup { <<t>> : t \in {NaN, 1, 2, 4} }

\* Floating-point comparisons: false when an operand is undefined.
LessEq_Strict(a, b) == ~IsNa(a) /\ ~IsNa(b) /\ a < b
LessEq(a, b) == ~IsNa(a) /\ ~IsNa(b) /\ a <= b
Less(a, b) == ~IsNa(a) /\ ~IsNa(b) /\ a < b
Greater(a, b) == ~IsNa(a) /\ ~IsNa(b) /\ a > b

\* The k-th smallest element of a sequence of numbers.
OrderStat(xs, k) ==
  CHOOSE v \in { xs[j] : j \in 1..Len(xs) } :
    /\ Cardinality({ j \in 1..Len(xs) : xs[j] < v }) < k
    /\ k <= Cardinality({ j \in 1..Len(xs) : xs[j] <= v })

\* Series.median(), doubled: undefined cells are skipped, an even count takes
\* the mean of the two middle values, no defined cell gives undefined.
Median2(ranks) ==
  LET xs == SelectSeq(ranks, LAMBDA x : ~IsNa(x))
      n == Len(xs)
  IN  IF n = 0 THEN NaN
      ELSE IF n % 2 = 1 THEN 2 * OrderStat(xs, (n + 1) \div 2)
      ELSE OrderStat(xs, n \div 2) + OrderStat(xs, n \div 2 + 1)
Twice(x) == IF IsNa(x) THEN NaN ELSE 2 * x

\* generate_momentum_signal on a column of ranks.
MomentumSignal(ranks, threshold) ==
  LET signals == [k \in 1..Len(ranks) |-> 0]
  IN  IF threshold # <<>>
      THEN LET buy == [k \in 1..Len(ranks) |->
                         IF LessEq(ranks[k], threshold[1]) THEN 1 ELSE signals[k]]
           IN  [k \in 1..Len(ranks) |->
                  IF Greater(ranks[k], threshold[1]) THEN -1 ELSE buy[k]]
      ELSE LET median_rank2 == Median2(ranks)
               buy == [k \in 1..Len(ranks) |->
                         IF Less(Twice(ranks[k]), median_rank2) THEN 1 ELSE signals[k]]
           IN  [k \in 1..Len(ranks) |->
                  IF Greater(Twice(ranks[k]), median_rank2) THEN -1 ELSE buy[k]]

\* ------------------------------------------------------------ initial states
\* The object after Backtester.__init__(d, DefaultInitialBalance) has set its
\* fields; a MomentumBacktester's constructor has two more steps to run.
ConstructedOn(c, d, h, hs) ==
  /\ cls = c
  /\ data = d
  /\ holdout = h
  /\ portfolio_value = <<>>
  /\ initial_balance = DefaultInitialBalance
  /\ balance = initial_balance
  /\ position = 0
  /\ trades = <<>>
  /\ call = "__init__"
  /\ todo = CtorRest(cls)
  /\ i = 0
  /\ returns = <<>>
  /\ n_left = 0
  /\ n_simulations = 0
  /\ shuffled_data = <<>>
  /\ total_return = <<0, 1>>
  /\ post_trade_balance = <<>>
  /\ calls = 0
  /\ data_arg = d
  /\ has_signal = hs
  /\ raised = "none"

\* No signal function is being called on its own.
NoCall == [fn |-> "none"]
NoResult == [returned |-> FALSE, raised |-> "none", signals |-> <<>>]

\* The object constructed on a dataset that has a Signal column.
Constructed(c, d, h) ==
  /\ ConstructedOn(c, d, h, TRUE)
  /\ fn_call = NoCall
  /\ fn_result = NoResult

\* Any class, any series; the caller keeps a later window of the series
\* aside for forward_test.
Init ==
  \E c \in Classes : \E series \in SeqsUpTo(Rows, MaxLen) : \E k \in 0..Len(series) :
    Constructed(c, SubSeq(series, 1, k), SubSeq(series, k + 1, Len(series)))

\* A simulator of either class on a pre-signaled dataset.
InitExec ==
  \E c \in Classes : \E d \in SeqsUpTo(SignalRows, MaxLen) : Constructed(c, d, <<>>)

\* A simulator on a dataset fit for its class's pipeline.
InitRun ==
  \E c \in Classes : \E d \in SeqsUpTo(RowsOf(c), MaxLen) : Constructed(c, d, <<>>)

\* A simulator of either class on a pre-signaled dataset with price gaps.
InitDefect ==
  \E c \in Classes : \E d \in SeqsUpTo(DefectRows, MaxLen) : Constructed(c, d, <<>>)

InitMC ==
  \E c \in Classes : \E d \in SeqsUpTo(McRowsOf(c), MaxLen) : Constructed(c, d, <<>>)

\* The absent cells of a dataset without a 'Signal' column.
NoSignalRows == { r \in SignalRows : IsNa(r.Signal) }

\* A simulator of either class being constructed on a dataset with or without
\* a 'Signal' column.
InitSetup ==
  \E c \in Classes : \E hs \in BOOLEAN :
    \E d \in SeqsUpTo(IF hs THEN SignalRows ELSE NoSignalRows, MaxLen) :
      /\ ConstructedOn(c, d, <<>>, hs)
      /\ fn_call = NoCall
      /\ fn_result = NoResult

\* A crossover simulator about to derive the signals of a frame: rows[k][j] is
\* the value of column j at period k.
InitCrossover ==
  /\ ConstructedOn("Backtester", <<>>, <<>>, TRUE)
  /\ \E c \in ColumnLists : \E n \in 0..FrameLen(Len(c)) :
       \E r \in [1..n -> [1..Len(c) -> MAValues]] :
         fn_call = [fn |-> "generate_signals", columns |-> c, rows |-> r]
  /\ fn_result = NoResult

\* A call of generate_momentum_signal about to run.
InitMomentumSignal ==
  /\ ConstructedOn("MomentumBacktester", <<>>, <<>>, TRUE)
  /\ \E r \in SeqsUpTo(RankValues, MaxLen + 2) : \E t \in Thresholds :
       fn_call = [fn |-> "generate_momentum_signal", ranks |-> r, threshold |-> t]
  /\ fn_result = NoResult

\* ------------------------------------------------------------ steps
Idle == todo = <<>>

McVars == <<returns, n_left, n_simulations, shuffled_data>>
FnVars == <<fn_call, fn_result>>
SimVars == <<balance, position, trades, post_trade_balance>>

\* MomentumBacktester.generate_signals finds no 'Signal' column.
MissingSignal_Never == FALSE
MissingSignal == cls = "MomentumBacktester" /\ ~has_signal

\* generate_signals of MomentumBacktester raises: the ValueError ends the
\* running call, nothing after it runs.
GenerateSignalsRaises ==
  /\ todo # <<>> /\ Head(todo) \in {"gen", "ctor_gen"}
  /\ MissingSignal
  /\ raised' = "ValueError"
  /\ todo' = <<>>
  /\ UNCHANGED <<cls, data, portfolio_value, holdout, initial_balance, call, i,
                 total_return, calls, data_arg, has_signal>>
  /\ UNCHANGED SimVars
  /\ UNCHANGED McVars
  /\ UNCHANGED FnVars

\* generate_signals, of the object's class.
GenerateSignals ==
  /\ todo # <<>> /\ Head(todo) \in {"gen", "ctor_gen"}
  /\ ~MissingSignal
  /\ data' = GenerateSignalsOf(cls, data)
  /\ has_signal' = TRUE
  /\ todo' = Tail(todo)
  /\ UNCHANGED <<cls, portfolio_value, holdout, initial_balance, call, i,
                 total_return, calls>>
  /\ UNCHANGED SimVars
  /\ UNCHANGED McVars
  /\ UNCHANGED <<data_arg, raised>>
  /\ UNCHANGED FnVars

\* execute_trades: one iteration of its loop.
ExecuteTradesRow ==
  /\ todo # <<>> /\ Head(todo) \in {"exec", "ctor_exec"}
  /\ i < Len(data)
  /\ LET now == [position |-> position, balance |-> balance, trades |-> trades]
         st == IF has_signal THEN ExecRow(now, i + 1, data[i + 1]) ELSE now
     IN  /\ position' = st.position
         /\ balance' = st.balance
         /\ trades' = st.trades
         /\ post_trade_balance' =
              IF Len(st.trades) > Len(trades)
              THEN Append(post_trade_balance, st.balance)
              ELSE post_trade_balance
  /\ i' = i + 1
  /\ UNCHANGED <<cls, data, portfolio_value, holdout, initial_balance, call, todo,
                 total_return, calls>>
  /\ UNCHANGED McVars
  /\ UNCHANGED <<data_arg, has_signal, raised>>
  /\ UNCHANGED FnVars

\* execute_trades: the loop is exhausted and the method returns.
ExecuteTradesEnd ==
  /\ todo # <<>> /\ Head(todo) \in {"exec", "ctor_exec"}
  /\ i = Len(data)
  /\ i' = 0
  /\ todo' = Tail(todo)
  /\ UNCHANGED <<cls, data, portfolio_value, holdout, initial_balance, call,
                 total_return, calls>>
  /\ UNCHANGED SimVars
  /\ UNCHANGED McVars
  /\ UNCHANGED <<data_arg, has_signal, raised>>
  /\ UNCHANGED FnVars

\* calculate_performance.
CalculatePerformance ==
  /\ todo # <<>> /\ Head(todo) = "calc"
  /\ balance' = ReplayBalance(trades, Len(trades), balance)
  /\ portfolio_value' =
       ReplayCurve(trades, Len(trades), balance, initial_balance, Len(data))
  /\ total_return' = TotalReturn(balance', initial_balance)
  /\ todo' = Tail(todo)
  /\ UNCHANGED <<cls, data, holdout, initial_balance, position, trades,
                 post_trade_balance, call, i, calls>>
  /\ UNCHANGED McVars
  /\ UNCHANGED <<data_arg, has_signal, raised>>
  /\ UNCHANGED FnVars

\* MonteCarloTrial with a reset that forgets the balance.
MonteCarloTrial_NoReset ==
  /\ todo # <<>> /\ Head(todo) = "mc_loop"
  /\ n_left > 0
  /\ \E f \in Perms(Len(data)) :
       /\ shuffled_data' = Permute(data, f)
       /\ data_arg' = Permute(data, f)
       /\ data' = Permute(data, f)
       /\ portfolio_value' =
            IF portfolio_value = <<>> THEN <<>> ELSE Permute(portfolio_value, f)
  /\ balance' = balance
  /\ position' = 0
  /\ trades' = <<>>
  /\ post_trade_balance' = <<>>
  /\ n_left' = n_left - 1
  /\ todo' = CtorRest(cls) \o <<"gen", "exec", "calc", "append">> \o todo
  /\ UNCHANGED <<cls, holdout, initial_balance, call, i, returns, n_simulations,
                 total_return, calls>>
  /\ UNCHANGED <<has_signal, raised>>
  /\ UNCHANGED FnVars

\* monte_carlo_backtest: the head of its for loop; either the loop is over
\* and returns is returned, or the data is shuffled and self.__init__ resets
\* the fields.
MonteCarloTrial ==
  /\ todo # <<>> /\ Head(todo) = "mc_loop"
  /\ n_left > 0
  /\ \E f \in Perms(Len(data)) :
       /\ shuffled_data' = Permute(data, f)
       /\ data_arg' = Permute(data, f)
       /\ data' = Permute(data, f)
       /\ portfolio_value' =
            IF portfolio_value = <<>> THEN <<>> ELSE Permute(portfolio_value, f)
  /\ balance' = initial_balance
  /\ position' = 0
  /\ trades' = <<>>
  /\ post_trade_balance' = <<>>
  /\ n_left' = n_left - 1
  /\ todo' = CtorRest(cls) \o <<"gen", "exec", "calc", "append">> \o todo
  /\ UNCHANGED <<cls, holdout, initial_balance, call, i, returns, n_simulations,
                 total_return, calls>>
  /\ UNCHANGED <<has_signal, raised>>
  /\ UNCHANGED FnVars

MonteCarloAppend ==
  /\ todo # <<>> /\ Head(todo) = "append"
  /\ returns' = Append(returns, total_return)
  /\ todo' = Tail(todo)
  /\ UNCHANGED <<cls, data, portfolio_value, holdout, initial_balance, call, i,
                 n_left, n_simulations, shuffled_data, total_return, calls>>
  /\ UNCHANGED SimVars
  /\ UNCHANGED <<data_arg, has_signal, raised>>
  /\ UNCHANGED FnVars

MonteCarloReturn ==
  /\ todo # <<>> /\ Head(todo) = "mc_loop"
  /\ n_left = 0
  /\ todo' = Tail(todo)
  /\ UNCHANGED <<cls, data, portfolio_value, holdout, initial_balance, call, i,
                 total_return, calls>>
  /\ UNCHANGED SimVars
  /\ UNCHANGED McVars
  /\ UNCHANGED <<data_arg, has_signal, raised>>
  /\ UNCHANGED FnVars

\* ------------------------------------------------------------ public calls
CanCall == Idle /\ calls < MaxCalls /\ raised = "none"

CallGenerateSignals ==
  /\ CanCall
  /\ call' = "generate_signals"
  /\ todo' = <<"gen">>
  /\ calls' = calls + 1
  /\ UNCHANGED <<cls, data, portfolio_value, holdout, initial_balance, i, total_return>>
  /\ UNCHANGED SimVars
  /\ UNCHANGED McVars
  /\ UNCHANGED <<data_arg, has_signal, raised>>
  /\ UNCHANGED FnVars

CallExecuteTrades ==
  /\ CanCall
  /\ call' = "execute_trades"
  /\ todo' = <<"exec">>
  /\ calls' = calls + 1
  /\ UNCHANGED <<cls, data, portfolio_value, holdout, initial_balance, i, total_return>>
  /\ UNCHANGED SimVars
  /\ UNCHANGED McVars
  /\ UNCHANGED <<data_arg, has_signal, raised>>
  /\ UNCHANGED FnVars

CallCalculatePerformance ==
  /\ CanCall
  /\ call' = "calculate_performance"
  /\ todo' = <<"calc">>
  /\ calls' = calls + 1
  /\ UNCHANGED <<cls, data, portfolio_value, holdout, initial_balance, i, total_return>>
  /\ UNCHANGED SimVars
  /\ UNCHANGED McVars
  /\ UNCHANGED <<data_arg, has_signal, raised>>
  /\ UNCHANGED FnVars

CallRunBacktest ==
  /\ CanCall
  /\ call' = "run_backtest"
  /\ todo' = <<"gen", "exec", "calc">>
  /\ calls' = calls + 1
  /\ UNCHANGED <<cls, data, portfolio_value, holdout, initial_balance, i, total_return>>
  /\ UNCHANGED SimVars
  /\ UNCHANGED McVars
  /\ UNCHANGED <<data_arg, has_signal, raised>>
  /\ UNCHANGED FnVars

\* forward_test(new_data), with new_data the held-out window.
CallForwardTest ==
  /\ CanCall
  /\ call' = "forward_test"
  /\ data' = holdout
  /\ data_arg' = holdout
  /\ portfolio_value' = <<>>
  /\ balance' = initial_balance
  /\ position' = 0
  /\ trades' = <<>>
  /\ post_trade_balance' = <<>>
  /\ todo' = CtorRest(cls) \o <<"gen", "exec", "calc">>
  /\ calls' = calls + 1
  /\ UNCHANGED <<cls, holdout, initial_balance, i, total_return>>
  /\ UNCHANGED McVars
  /\ UNCHANGED <<has_signal, raised>>
  /\ UNCHANGED FnVars

CallMonteCarloBacktest ==
  /\ CanCall
  /\ call' = "monte_carlo_backtest"
  /\ \E n \in 0..MaxSims :
       /\ n_simulations' = n
       /\ n_left' = n
  /\ returns' = <<>>
  /\ shuffled_data' = <<>>
  /\ todo' = <<"mc_loop">>
  /\ calls' = calls + 1
  /\ UNCHANGED <<cls, data, portfolio_value, holdout, initial_balance, i, total_return>>
  /\ UNCHANGED SimVars
  /\ UNCHANGED <<data_arg, has_signal, raised>>
  /\ UNCHANGED FnVars

Next ==
  \/ GenerateSignals
  \/ ExecuteTradesRow
  \/ ExecuteTradesEnd
  \/ CalculatePerformance
  \/ MonteCarloTrial
  \/ MonteCarloAppend
  \/ MonteCarloReturn
  \/ CallGenerateSignals
  \/ CallExecuteTrades
  \/ CallCalculatePerformance
  \/ CallRunBacktest
  \/ CallForwardTest
  \/ CallMonteCarloBacktest

Spec == Init /\ [][Next]_vars

\* A caller that only calls execute_trades.
NextExec ==
  \/ GenerateSignals
  \/ ExecuteTradesRow
  \/ ExecuteTradesEnd
  \/ CallExecuteTrades

SpecExec == InitExec /\ [][NextExec]_vars

\* The same caller, on a dataset with price gaps.
SpecDefect == InitDefect /\ [][NextExec]_vars

\* A caller that only calls run_backtest.
NextRun ==
  \/ GenerateSignals
  \/ ExecuteTradesRow
  \/ ExecuteTradesEnd
  \/ CalculatePerformance
  \/ CallRunBacktest

SpecRun == InitRun /\ [][NextRun]_vars

\* A caller that only calls monte_carlo_backtest.
NextMC ==
  \/ GenerateSignals
  \/ ExecuteTradesRow
  \/ ExecuteTradesEnd
  \/ CalculatePerformance
  \/ MonteCarloTrial
  \/ MonteCarloAppend
  \/ MonteCarloReturn
  \/ CallMonteCarloBacktest

SpecMC == InitMC /\ [][NextMC]_vars

\* The constructor alone.
NextSetup ==
  \/ GenerateSignals
  \/ GenerateSignalsRaises
  \/ ExecuteTradesRow
  \/ ExecuteTradesEnd

SpecSetup == InitSetup /\ [][NextSetup]_vars

\* ------------------------------------------------------------ signal function calls
ObjVars == <<cls, data, portfolio_value, holdout, initial_balance, call, todo, i,
             total_return, calls, data_arg, has_signal, raised>>

\* Backtester.generate_signals on the frame of fn_call.
GenerateSignalsOnFrame ==
  /\ fn_call.fn = "generate_signals"
  /\ ~fn_result.returned
  /\ fn_result' = CrossoverFrame(fn_call)
  /\ UNCHANGED <<fn_call, ObjVars, McVars, SimVars>>

NextCrossover == GenerateSignalsOnFrame

SpecCrossover == InitCrossover /\ [][NextCrossover]_vars

\* generate_momentum_signal on the arguments of fn_call.
GenerateMomentumSignal ==
  /\ fn_call.fn = "generate_momentum_signal"
  /\ ~fn_result.returned
  /\ fn_result' = [returned |-> TRUE, raised |-> "none",
                   signals |-> MomentumSignal(fn_call.ranks, fn_call.threshold)]
  /\ UNCHANGED <<fn_call, ObjVars, McVars, SimVars>>

NextMomentumSignal == GenerateMomentumSignal

SpecMomentumSignal == InitMomentumSignal /\ [][NextMomentumSignal]_vars

\* ------------------------------------------------------------ claims
\* A step that is one iteration of the loop of execute_trades, on row i + 1.
ExecStep == todo # <<>> /\ Head(todo) \in {"exec", "ctor_exec"} /\ i' = i + 1

\* The integer signal of a processed row, when defined.
SignalOf(row) == IntOf(row.Signal)

\* C1: from a fresh simulator, whatever the signals (undefined, fractional,
\* out of {-1,0,1}) and prices, position is always one of -1, 0, 1.
C1_PositionInDomain == position \in {-1, 0, 1}

\* C1 witness: execute_trades has just processed an undefined or out-of-domain
\* signal while a position was open.
C1_Witness ==
  /\ call = "execute_trades" /\ cls = "Backtester"
  /\ todo # <<>> /\ i > 0
  /\ position # 0
  /\ (IsNa(data[i].Signal) \/ SignalOf(data[i]) \notin {-1, 0, 1})

\* The transition table of the specification, on (position, balance, ledger).
TableStep(pos, bal, led, s, p, key) ==
  IF s = 1 /\ pos \in {0, -1}
    THEN <<1, bal - p, Append(led, <<key, "BUY", p>>)>>
  ELSE IF s = -1 /\ pos = 1
    THEN <<-1, bal + p, Append(led, <<key, "SELL", p>>)>>
  ELSE IF s = -1 /\ pos = 0
    THEN <<-1, bal, led>>
  ELSE IF s = 0 /\ pos = 1
    THEN <<0, bal + p, Append(led, <<key, "SELL", p>>)>>
  ELSE IF s = 0 /\ pos = -1
    THEN <<0, bal - p, Append(led, <<key, "BUY", p>>)>>
  ELSE <<pos, bal, led>>

\* C2: every period processed with a signal s in {-1,0,1} at close price p
\* changes (position, balance, ledger) exactly as the transition table says.
C2_TransitionTable ==
  [][ (ExecStep /\ data[i + 1].Signal \in {-Unit, 0, Unit})
        => <<position', balance', trades'>> =
             TableStep(position, balance, trades,
                       CHOOSE s \in {-1, 0, 1} : Unit * s = data[i + 1].Signal,
                       data[i + 1].Close, i + 1) ]_vars

\* C2 witness: the LONG -> SHORT row of the table has just acted.
C2_Witness ==
  /\ todo # <<>> /\ Head(todo) \in {"exec", "ctor_exec"} /\ i > 1
  /\ data[i - 1].Signal = Unit /\ data[i].Signal = -Unit
  /\ position = -1
  /\ trades # <<>> /\ trades[Len(trades)] = <<i, "SELL", data[i].Close>>

\* C3: the total return run_backtest returns on a fresh simulator is
\* (final balance - initial balance) / initial balance, the final balance being
\* the one held after the last period was processed; a +1 at p1 then a 0 at p2
\* give the ledger [BUY@p1, SELL@p2] and the return (p2 - p1) / initial_balance.
C3_TotalReturnOfFinalBalance ==
  [][ (call = "run_backtest" /\ calls = 1 /\ cls = "Backtester"
       /\ todo # <<>> /\ Head(todo) = "calc" /\ todo' = Tail(todo))
        => /\ RatEq(total_return', TotalReturn(balance, initial_balance))
           /\ (Len(data) = 2 /\ data[1].Signal = Unit /\ data[2].Signal = 0)
                => /\ trades = << <<1, "BUY", data[1].Close>>,
                                  <<2, "SELL", data[2].Close>> >>
                   /\ RatEq(total_return',
                            <<data[2].Close - data[1].Close, initial_balance>>) ]_vars

\* The key of the ledger entry after entry k, or past the last period.
NextTradeKey(k) == IF k < Len(trades) THEN trades[k + 1][1] ELSE Len(data) + 1

\* C4: in the curve calculate_performance returns after execute_trades, the
\* periods before the first trade hold the initial balance, and the periods
\* from a trade's key up to the next trade's key hold the balance the simulator
\* had right after that trade.
C4_CurveStepsToPostTradeBalance ==
  (Idle /\ call = "run_backtest" /\ calls = 1 /\ cls = "Backtester")
    => /\ Len(portfolio_value) = Len(data)
       /\ \A p \in 1..Len(data) :
            (\A k \in 1..Len(trades) : p < trades[k][1])
              => portfolio_value[p] = initial_balance
       /\ \A k \in 1..Len(trades) : \A p \in 1..Len(data) :
            (trades[k][1] <= p /\ p < NextTradeKey(k))
              => portfolio_value[p] = post_trade_balance[k]

\* C5: run_backtest over a signal sequence of zeros only (the empty series
\* included) leaves the ledger empty, returns a total return of exactly 0 and
\* a curve equal to the initial balance at every period.
C5_AllFlatRun ==
  (Idle /\ call = "run_backtest" /\ \A k \in 1..Len(data) : data[k].Signal = 0)
    => /\ trades = <<>>
       /\ total_return[1] = 0 /\ total_return[2] # 0
       /\ portfolio_value = [k \in 1..Len(data) |-> initial_balance]

\* C5 witness: a run_backtest over two periods of zero signals has returned.
C5_Witness ==
  /\ Idle /\ call = "run_backtest"
  /\ Len(data) >= 2
  /\ \A k \in 1..Len(data) : data[k].Signal = 0
  /\ Len(portfolio_value) = Len(data)

\* C6: a period that changes position appends exactly one ledger entry, and a
\* period that leaves position unchanged appends none.
C6_OneEntryPerDirectionChange ==
  [][ ExecStep
        => /\ position' # position => Len(trades') = Len(trades) + 1
           /\ position' = position => trades' = trades ]_vars

Abs(x) == IF x < 0 THEN -x ELSE x

\* C7: in every period processed at close price p, the absolute change of
\* balance is p times the absolute change of position.
C7_CashPerUnitOfExposure ==
  [][ ExecStep
        => Abs(balance' - balance) =
             data[i + 1].Close * Abs(position' - position) ]_vars

\* C8: after a run offered by the public interface (run_backtest,
\* forward_test, monte_carlo_backtest, on an object of either class), the
\* ledger's entries are in strictly increasing period-key order.
C8_LedgerStrictlyOrdered ==
  (Idle /\ calls = 1
   /\ call \in {"run_backtest", "forward_test", "monte_carlo_backtest"})
    => \A k \in 1..(Len(trades) - 1) : trades[k][1] < trades[k + 1][1]

\* C9: in monte_carlo_backtest and forward_test, of either class, when the
\* pipeline pass of a trial begins (at its generate_signals call), balance is
\* the initial balance, position is 0 and the ledger is empty.
C9_PassStartsReset ==
  (todo # <<>> /\ Head(todo) = "gen"
   /\ call \in {"monte_carlo_backtest", "forward_test"})
    => /\ balance = initial_balance
       /\ position = 0
       /\ trades = <<>>

\* The indicator values of a row.
Indicators(row) == <<row.Close, row.MA_20, row.MA_50>>

IsPermutationOf(a, b) ==
  /\ Len(a) = Len(b)
  /\ \E f \in Perms(Len(b)) :
       \A k \in 1..Len(b) : Indicators(a[k]) = Indicators(b[f[k]])

\* C10: monte_carlo_backtest(n) returns exactly n total returns; each is the
\* total return of one direct simulation (a new simulator of the same class,
\* run once) of that trial's shuffled dataset; and each trial's dataset is a
\* permutation of the period records with their indicator values unchanged.
C10_MonteCarloResults ==
  [][ /\ (todo # <<>> /\ Head(todo) = "mc_loop" /\ n_left' = n_left - 1)
        => IsPermutationOf(shuffled_data', data)
      /\ (todo # <<>> /\ Head(todo) = "append" /\ todo' = Tail(todo))
        => /\ Len(returns') = Len(returns) + 1
           /\ SubSeq(returns', 1, Len(returns)) = returns
           /\ RatEq(returns'[Len(returns')],
                    DirectRun(cls, shuffled_data, initial_balance))
      /\ (todo # <<>> /\ Head(todo) = "mc_loop" /\ todo' = <<>>)
        => Len(returns) = n_simulations ]_vars

\* C10 witness: monte_carlo_backtest(2) has returned two results, the two
\* trials having run on different orders of the records with different results.
C10_Witness ==
  /\ Idle /\ call = "monte_carlo_backtest"
  /\ n_simulations = 2 /\ Len(returns) = 2
  /\ ~RatEq(returns[1], returns[2])
  /\ returns[2][1] # 0

\* A step that is the body of calculate_performance.
CalcStep == todo # <<>> /\ Head(todo) = "calc" /\ todo' = Tail(todo)

\* C11: running the simulation twice on the same input gives identical
\* ledgers and identical total returns, also when run_backtest is called twice
\* on the same object: the second run then adds nothing to the ledger the
\* first run left and returns the total return the first run returned.
C11_SecondRunIdentical ==
  [][ (call = "run_backtest" /\ calls = 2)
        => /\ ExecStep => trades' = trades
           /\ CalcStep => RatEq(total_return', total_return) ]_vars

\* C12: calculate_performance leaves balance, position and the ledger as they
\* are.
C12_CalculatePerformanceNoSideEffect ==
  [][ CalcStep => UNCHANGED <<balance, position, trades>> ]_vars

\* C13: a period whose signal is undefined in the dataset handed to the
\* simulator, of either class, changes neither position nor balance nor ledger.
C13_UndefinedSignalSkipped ==
  [][ (ExecStep /\ IsNa(data_arg[i + 1].Signal))
        => UNCHANGED <<position, balance, trades>> ]_vars

\* C14: a period whose close price is undefined is skipped by execute_trades:
\* no trade is recorded at it and balance and position are unchanged.
C14_UndefinedPriceSkipped ==
  [][ (ExecStep /\ IsNa(data[i + 1].Close))
        => UNCHANGED <<position, balance, trades>> ]_vars

\* C15: a period whose defined signal is non-integer, or lies outside
\* {-1,0,1} after integer coercion, has from every position the same effect on
\* position, balance and ledger as a period with signal 0 at the same price.
C15_OutOfDomainActsAsZero ==
  [][ (ExecStep /\ ~IsNa(data[i + 1].Signal)
       /\ (data[i + 1].Signal % Unit # 0
           \/ SignalOf(data[i + 1]) \notin {-1, 0, 1}))
        => <<position', balance', trades'>> =
             TableStep(position, balance, trades, 0, data[i + 1].Close, i + 1) ]_vars

\* Sign of the comparison of two indicator values; 0 when either is undefined.
CompareDefined(a, b) ==
  IF IsNa(a) \/ IsNa(b) THEN 0 ELSE IF a > b THEN 1 ELSE IF a < b THEN -1 ELSE 0

C18_SetupFailsBeforeAnyStep ==
  [][ (cls = "MomentumBacktester" /\ ~has_signal /\ call = "__init__" /\ todo # <<>>)
        => /\ raised' = "ValueError"
           /\ todo' = <<>>
           /\ trades' = <<>> /\ balance' = initial_balance /\ position' = 0
           /\ i' = 0 /\ data' = data_arg ]_vars

\* C18 witness: the constructor has raised on a dataset of two periods.
C18_Witness ==
  /\ cls = "MomentumBacktester" /\ call = "__init__"
  /\ ~has_signal /\ Len(data) = 2
  /\ raised = "ValueError" /\ todo = <<>>
  /\ trades = <<>> /\ balance = initial_balance /\ position = 0

\* The cash the first k ledger entries account for: minus the price of each BUY,
\* plus the price of each SELL.
RECURSIVE LedgerCash(_, _)
LedgerCash(led, k) ==
  IF k = 0 THEN 0
  ELSE Plus(LedgerCash(led, k - 1),
            IF led[k][2] = "BUY" THEN Minus(0, led[k][3]) ELSE led[k][3])

\* C19: from a fresh simulator, while execute_trades processes periods, balance
\* is initial_balance minus the prices of the ledger's BUY entries plus the
\* prices of its SELL entries (both undefined counts as equal).
C19_BalanceConservation ==
  LET expected == Plus(initial_balance, LedgerCash(trades, Len(trades)))
  IN  \/ IsNa(balance) /\ IsNa(expected)
      \/ ~IsNa(balance) /\ ~IsNa(expected) /\ balance = expected

\* A signal that is defined and one of -1, 0, 1.
InDomain(row) == row.Signal \in {-Unit, 0, Unit}

\* The last in-domain signal among the first n rows of d, or dflt.
LastInDomain(d, n, dflt) ==
  LET S == { k \in 1..n : InDomain(d[k]) }
  IN  IF S = {} THEN dflt
      ELSE SignalOf(d[CHOOSE k \in S : \A j \in S : j <= k])

\* The passes of execute_trades over the dataset completed since __init__.
PassesDone ==
  calls + (IF cls = "MomentumBacktester" THEN 1 ELSE 0) - (IF todo # <<>> THEN 1 ELSE 0)

\* C20: after execute_trades processes a period whose signal s is defined and
\* in {-1,0,1}, position is s whatever it was before; hence position always is
\* the most recent such signal, or 0 if there has been none since __init__.
C20_PositionIsLastSignal ==
  /\ [][ (ExecStep /\ InDomain(data[i + 1]))
           => position' = SignalOf(data[i + 1]) ]_vars
  /\ [](position =
          LastInDomain(data, i,
                       IF PassesDone >= 1 THEN LastInDomain(data, Len(data), 0) ELSE 0))

====
